---------------------------- MODULE Spec2Model ----------------------------
(***************************************************************************)
(* Jamf inventory dashboard (src/app.py): a Streamlit script that is run   *)
(* from top to bottom on every user interaction.  One run reads the        *)
(* uploaded CSV files, concatenates them, enriches the frame with derived  *)
(* columns, and renders the selected page (Inventory or Warranty) from the *)
(* widget selections of the session.                                       *)
(*                                                                         *)
(* Text is modelled as sequences of one-character strings, so that         *)
(* lower-casing, prefix matching and substring search are computed.        *)
(* Calendar time is a serial count of time units (UnitsPerDay units make   *)
(* one day); a date cell of a CSV file holds that serial in decimal.       *)
(***************************************************************************)
EXTENDS Integers, Sequences, FiniteSets, TLC

\* ------------------------------------------------------------------ bounds
MaxFiles == 2
MaxTick == 1
UnitsPerDay == 2

\* --------------------------------------------------------- program numbers
CheckInDays == 30
ExpiringDays == 90

\* the wall clock when the session starts
Now0 == 100 * UnitsPerDay

\* ------------------------------------------------------------------- text
Digits == <<"0","1","2","3","4","5","6","7","8","9">>

\* the lower-case letter of every upper-case letter
LowerOf ==
    ("A" :> "a") @@ ("B" :> "b") @@ ("C" :> "c") @@ ("D" :> "d") @@ ("E" :> "e") @@ ("F" :> "f") @@
    ("G" :> "g") @@ ("H" :> "h") @@ ("I" :> "i") @@ ("J" :> "j") @@ ("K" :> "k") @@ ("L" :> "l") @@
    ("M" :> "m") @@ ("N" :> "n") @@ ("O" :> "o") @@ ("P" :> "p") @@ ("Q" :> "q") @@ ("R" :> "r") @@
    ("S" :> "s") @@ ("T" :> "t") @@ ("U" :> "u") @@ ("V" :> "v") @@ ("W" :> "w") @@ ("X" :> "x") @@
    ("Y" :> "y") @@ ("Z" :> "z")

\* str.lower() of one character
LowerChar(c) == IF c \in DOMAIN LowerOf THEN LowerOf[c] ELSE c

\* str.lower()
Lower(s) == [i \in 1..Len(s) |-> LowerChar(s[i])]

\* needle in hay (Python's substring test): the empty needle is in every
\* text, any other is where its first character and then the rest match
Contains(hay, needle) ==
    \E h \in {hay \o <<>>}, n \in {needle \o <<>>} :
        \/ Len(n) = 0
        \/ \E i \in {k \in 1..(Len(h) - Len(n) + 1) : h[k] = n[1]} :
              \A j \in 2..Len(n) : h[i + j - 1] = n[j]

\* hay.startswith(prefix)
StartsWith(hay, prefix) ==
    /\ Len(prefix) <= Len(hay)
    /\ \A j \in 1..Len(prefix) : hay[j] = prefix[j]

RECURSIVE NatText(_)
\* str(n) for n >= 0
NatText(n) == IF n < 10 THEN <<Digits[n + 1]>> ELSE NatText(n \div 10) \o <<Digits[(n % 10) + 1]>>

\* str(n) of an integer
IntText(n) == IF n < 0 THEN <<"-">> \o NatText(0 - n) ELSE NatText(n)

IsDigit(c) == \E i \in 1..10 : Digits[i] = c
DigitValue(c) == (CHOOSE i \in 1..10 : Digits[i] = c) - 1

RECURSIVE DecimalValue(_)
DecimalValue(s) ==
    IF Len(s) = 0 THEN 0
    ELSE 10 * DecimalValue(SubSeq(s, 1, Len(s) - 1)) + DigitValue(s[Len(s)])

\* --------------------------------------------------------- column names
ColComputerName == "Computer Name"
ColSerial == "Serial Number"
ColUsername == "Username"
ColOS == "Operating System"
ColLastUpdate == "Last Inventory Update"
ColManaged == "Managed"
ColWarranty == "Warranty Expiration"
ColDepartment == "Department"
ColDaysSince == "Days Since Update"
ColCheckIn == "Check-In Status"
ColDaysUntil == "Days Until Expiration"
ColWarrantyStatus == "Warranty Status"

\* the characters of a column label, as str(row) prints them
Label(c) ==
    CASE c = ColComputerName -> <<"C","o","m","p","u","t","e","r"," ","N","a","m","e">>
      [] c = ColSerial -> <<"S","e","r","i","a","l"," ","N","u","m","b","e","r">>
      [] c = ColUsername -> <<"U","s","e","r","n","a","m","e">>
      [] c = ColOS -> <<"O","p","e","r","a","t","i","n","g"," ","S","y","s","t","e","m">>
      [] c = ColLastUpdate -> <<"L","a","s","t"," ","I","n","v","e","n","t","o","r","y"," ","U","p","d","a","t","e">>
      [] c = ColManaged -> <<"M","a","n","a","g","e","d">>
      [] c = ColWarranty -> <<"W","a","r","r","a","n","t","y"," ","E","x","p","i","r","a","t","i","o","n">>
      [] c = ColDepartment -> <<"D","e","p","a","r","t","m","e","n","t">>
      [] c = ColDaysSince -> <<"D","a","y","s"," ","S","i","n","c","e"," ","U","p","d","a","t","e">>
      [] c = ColCheckIn -> <<"C","h","e","c","k","-","I","n"," ","S","t","a","t","u","s">>
      [] c = ColDaysUntil -> <<"D","a","y","s"," ","U","n","t","i","l"," ","E","x","p","i","r","a","t","i","o","n">>
      [] c = ColWarrantyStatus -> <<"W","a","r","r","a","n","t","y"," ","S","t","a","t","u","s">>

\* ---------------------------------------------------------- string literals
CheckedIn == <<"C","h","e","c","k","e","d"," ","i","n"," ","(","<","3","0"," ","d","a","y","s",")">>
NotCheckedIn == <<"N","o","t"," ","c","h","e","c","k","e","d"," ","i","n"," ","(","3","0","+"," ","d","a","y","s",")">>
Expired == <<"E","x","p","i","r","e","d">>
ExpiringSoon == <<"E","x","p","i","r","i","n","g"," ","S","o","o","n"," ","(","<","9","0"," ","d","a","y","s",")">>
Valid == <<"V","a","l","i","d">>
All == <<"A","l","l">>
Unmanaged == <<"U","n","m","a","n","a","g","e","d">>
DeptCodes == << <<"P","R","O">>, <<"S","E","M">>, <<"S","T","U">>, <<"D","C","E">>, <<"S","O","E">> >>

\* ------------------------------------------------------------ cell values
\* A cell is a missing value (NaN / NaT / None), a string, a timestamp or a
\* whole number (a day count).
NaN == [k |-> "nan"]
Str(s) == [k |-> "str", s |-> s]
Ts(t) == [k |-> "ts", t |-> t]
Num(n) == [k |-> "num", n |-> n]

\* pd.isna / pd.notna
IsNa(v) == v.k = "nan"
NotNa(v) == ~IsNa(v)

\* str(value), as it appears in the printed row
ValueText(v) ==
    CASE v.k = "nan" -> <<"N","a","N">>
      [] v.k = "str" -> v.s
      [] v.k = "ts" -> NatText(v.t) \o <<" ","0","0",":","0","0",":","0","0">>
      [] v.k = "num" -> IntText(v.n)

\* ------------------------------------------------------------------ frames
\* A frame is [cols: sequence of column names, rows: sequence of rows]; a row
\* is [idx: its index label, cell: column name -> cell value].  None is the
\* frame variable before any file was read.
None == [none |-> TRUE]

Range(s) == {s[i] : i \in 1..Len(s)}
ColSet(d) == Range(d.cols)
HasCol(d, c) == c \in ColSet(d)

\* df[c] = values, one value per row: the column is replaced in place, or
\* appended as the last column when the frame has none of that name
SetColumn(d, c, values) ==
    [cols |-> IF HasCol(d, c) THEN d.cols ELSE Append(d.cols, c),
     rows |-> [i \in 1..Len(d.rows) |->
                 [idx |-> d.rows[i].idx,
                  cell |-> (c :> values[i]) @@ d.rows[i].cell]] \o <<>>]

RECURSIVE Masked(_, _, _)
\* the first n rows whose mask entry is True, in order
Masked(rows, mask, n) ==
    IF n = 0 THEN <<>>
    ELSE IF mask[n] THEN Append(Masked(rows, mask, n - 1), rows[n])
    ELSE Masked(rows, mask, n - 1)

\* the boolean-mask selection d[mask], one entry per row: rows keep their
\* index labels and order
Select(d, mask) == [cols |-> d.cols, rows |-> Masked(d.rows, mask, Len(d.rows))]


\* ------------------------------------------------------- reading the files
\* pd.read_csv(f) on every uploaded file, keeping the ones that can be read
ReadableFiles(files) == SelectSeq(files, LAMBDA f : f.ok)

RECURSIVE ConcatCols(_)
\* the columns of pd.concat: the union, in order of first appearance
ConcatCols(dfs) ==
    IF Len(dfs) = 0 THEN <<>>
    ELSE LET before == ConcatCols(SubSeq(dfs, 1, Len(dfs) - 1))
             last == dfs[Len(dfs)].cols
         IN before \o SelectSeq(last, LAMBDA c : c \notin Range(before))

RECURSIVE ConcatRows(_)
ConcatRows(dfs) ==
    IF Len(dfs) = 0 THEN <<>>
    ELSE ConcatRows(SubSeq(dfs, 1, Len(dfs) - 1)) \o dfs[Len(dfs)].rows

\* pd.concat(dfs, ignore_index=True): rows in file order, re-indexed from 0,
\* a cell of a column the row's file lacks is NaN
Concat(dfs) ==
    LET cols == ConcatCols(dfs)
        rows == ConcatRows(dfs)
    IN [cols |-> cols,
        rows |-> [i \in 1..Len(rows) |->
                    [idx |-> i - 1,
                     cell |-> [c \in Range(cols) |->
                                 IF c \in DOMAIN rows[i] THEN rows[i][c] ELSE NaN]]]]

\* lines 29-39: df stays None unless at least one file was read
LoadFrame(files) ==
    LET dfs == ReadableFiles(files)
    IN IF Len(dfs) = 0 THEN None ELSE Concat(dfs)

\* -------------------------------------------------------------- enrichment
\* Series.str.extract(r"^(PRO|SEM|STU|DCE|SOE)"): the code the name starts
\* with, NaN when there is none or the name is missing
ExtractDepartment(v) ==
    IF v.k = "str" /\ \E i \in 1..Len(DeptCodes) : StartsWith(v.s, DeptCodes[i])
    THEN Str(DeptCodes[CHOOSE i \in 1..Len(DeptCodes) : StartsWith(v.s, DeptCodes[i])])
    ELSE NaN

\* pd.to_datetime(value, errors="coerce"): a date text is parsed, anything
\* else becomes NaT
ToDatetime(v) ==
    CASE v.k = "ts" -> v
      [] v.k = "str" /\ Len(v.s) > 0 /\ (\A i \in 1..Len(v.s) : IsDigit(v.s[i])) -> Ts(DecimalValue(v.s))
      [] OTHER -> NaN

\* Timedelta.days: whole days, rounded towards minus infinity
WholeDays(delta) == delta \div UnitsPerDay

\* a variant that measures from the start of the session, not from the run
DaysSinceUpdateFrozen(v, t) == IF v.k = "ts" THEN Num((Now0 - v.t) \div UnitsPerDay) ELSE NaN

\* (datetime.datetime.now() - df["Last Inventory Update"]).dt.days
DaysSinceUpdate(v, t) == IF v.k = "ts" THEN Num(WholeDays(t - v.t)) ELSE NaN

\* (df["Warranty Expiration"] - pd.Timestamp.now()).dt.days
DaysUntilExpiration(v, t) == IF v.k = "ts" THEN Num(WholeDays(v.t - t)) ELSE NaN

\* x < n for a day count x: a comparison with NaN is False
LessThan(x, n) == x.k = "num" /\ x.n < n
AtMost(x, n) == x.k = "num" /\ x.n <= n
AtLeast(x, n) == x.k = "num" /\ x.n >= n

\* a variant with the boundary day on the other side
CheckInStatusAtMost(x) ==
    IF x.k = "num" /\ x.n <= CheckInDays THEN Str(CheckedIn) ELSE Str(NotCheckedIn)

\* lines 47-49
CheckInStatus(x) ==
    IF LessThan(x, CheckInDays) THEN Str(CheckedIn) ELSE Str(NotCheckedIn)

\* a variant with the boundary day on the other side
WarrantyStatusBelow(x) ==
    IF NotNa(x) /\ x.n < 0 THEN Str(Expired)
    ELSE IF NotNa(x) /\ x.n < ExpiringDays THEN Str(ExpiringSoon)
    ELSE Str(Valid)

\* lines 55-58
WarrantyStatus(x) ==
    IF NotNa(x) /\ LessThan(x, 0) THEN Str(Expired)
    ELSE IF NotNa(x) /\ AtMost(x, ExpiringDays) THEN Str(ExpiringSoon)
    ELSE Str(Valid)

\* a variant that assigns the extracted code to the name column
EnrichDepartmentIntoName(d) ==
    IF HasCol(d, ColComputerName)
    THEN SetColumn(d, ColComputerName, [i \in 1..Len(d.rows) |-> ExtractDepartment(d.rows[i].cell[ColComputerName])])
    ELSE d

\* lines 42-43
EnrichDepartment(d) ==
    IF HasCol(d, ColComputerName)
    THEN SetColumn(d, ColDepartment, [i \in 1..Len(d.rows) |-> ExtractDepartment(d.rows[i].cell[ColComputerName])])
    ELSE d

\* lines 44-49
EnrichCheckIn(d, t) ==
    IF HasCol(d, ColLastUpdate)
    THEN LET d1 == SetColumn(d, ColLastUpdate, [i \in 1..Len(d.rows) |-> ToDatetime(d.rows[i].cell[ColLastUpdate])])
             d2 == SetColumn(d1, ColDaysSince, [i \in 1..Len(d1.rows) |-> DaysSinceUpdate(d1.rows[i].cell[ColLastUpdate], t)])
         IN SetColumn(d2, ColCheckIn, [i \in 1..Len(d2.rows) |-> CheckInStatus(d2.rows[i].cell[ColDaysSince])])
    ELSE d

\* lines 52-58
EnrichWarranty(d, t) ==
    IF HasCol(d, ColWarranty)
    THEN LET d1 == SetColumn(d, ColWarranty, [i \in 1..Len(d.rows) |-> ToDatetime(d.rows[i].cell[ColWarranty])])
             d2 == SetColumn(d1, ColDaysUntil, [i \in 1..Len(d1.rows) |-> DaysUntilExpiration(d1.rows[i].cell[ColWarranty], t)])
         IN SetColumn(d2, ColWarrantyStatus, [i \in 1..Len(d2.rows) |-> WarrantyStatus(d2.rows[i].cell[ColDaysUntil])])
    ELSE d

\* lines 41-58, on a frame that was read
Enrich(d, t) == EnrichWarranty(EnrichCheckIn(EnrichDepartment(d), t), t)

\* ------------------------------------------------------------- the pages
PageInventory == "Inventory"
PageWarranty == "Warranty"

\* df[c].dropna().unique().tolist() when the frame has the column, else []
UniqueValues(d, c) ==
    IF HasCol(d, c)
    THEN {d.rows[i].cell[c].s : i \in {j \in 1..Len(d.rows) : d.rows[j].cell[c].k = "str"}}
    ELSE {}

\* lines 75-80 and 179-184: the options of a department select box
DeptOptions(d) == {All} \cup UniqueValues(d, ColDepartment)

\* line 83, once managed is a column's values
ManagedOptions(d) == {All} \cup UniqueValues(d, ColManaged) \cup {Unmanaged}

\* lines 86-90
OSOptions(d) == {All} \cup UniqueValues(d, ColOS)

\* a select box returns the session's selection when it is one of the options
\* offered in this run, and the first option ("All") otherwise
Selected(value, options) == IF value \in options THEN value ELSE All

RECURSIVE RowLines(_, _)
RowLines(cols, r) ==
    IF Len(cols) = 0 THEN <<>>
    ELSE RowLines(SubSeq(cols, 1, Len(cols) - 1), r)
         \o Label(cols[Len(cols)]) \o <<" "," "," "," ">>
         \o ValueText(r.cell[cols[Len(cols)]]) \o <<"\n">>

\* str(row) of line 102: one line per column, the column's label then the
\* value, and a last line naming the row's index label and the dtype
RowText(d, r) ==
    RowLines(d.cols, r) \o <<"N","a","m","e",":"," ">> \o NatText(r.idx)
    \o <<","," ","d","t","y","p","e",":"," ","o","b","j","e","c","t">>

\* lines 94-95
FilterDepartment(d, dept) ==
    IF dept # All
    THEN Select(d, [i \in 1..Len(d.rows) |-> d.rows[i].cell[ColDepartment] = Str(dept)])
    ELSE d

\* a variant whose "Unmanaged" is an exact match like any other value
FilterManagedExact(d, managed) ==
    IF managed # All /\ HasCol(d, ColManaged)
    THEN Select(d, [i \in 1..Len(d.rows) |-> d.rows[i].cell[ColManaged] = Str(managed)])
    ELSE d

\* lines 96-100
FilterManaged(d, managed) ==
    IF managed # All /\ HasCol(d, ColManaged)
    THEN IF managed = Unmanaged
         THEN Select(d, [i \in 1..Len(d.rows) |-> IsNa(d.rows[i].cell[ColManaged]) \/ d.rows[i].cell[ColManaged] = Str(Unmanaged)])
         ELSE Select(d, [i \in 1..Len(d.rows) |-> d.rows[i].cell[ColManaged] = Str(managed)])
    ELSE d

\* lines 101-102
FilterSearch(d, term) ==
    IF term # <<>>
    THEN Select(d, [i \in 1..Len(d.rows) |-> Contains(Lower(RowText(d, d.rows[i])), Lower(term))])
    ELSE d

\* lines 103-104
FilterOS(d, os) ==
    IF os # All /\ HasCol(d, ColOS)
    THEN Select(d, [i \in 1..Len(d.rows) |-> d.rows[i].cell[ColOS] = Str(os)])
    ELSE d

\* lines 93-104
ApplyFilters(d, dept, managed, term, os) ==
    FilterOS(FilterSearch(FilterManaged(FilterDepartment(d, dept), managed), term), os)

\* lines 134-140: one flag per row of results
StaleMask(d) ==
    [i \in 1..Len(d.rows) |->
        IF HasCol(d, ColDaysSince) THEN AtLeast(d.rows[i].cell[ColDaysSince], CheckInDays)
        ELSE IF HasCol(d, ColCheckIn) THEN d.rows[i].cell[ColCheckIn] = Str(NotCheckedIn)
        ELSE FALSE]

\* lines 187-190
WarrantyFrame(d, dept) ==
    IF dept # All /\ HasCol(d, ColDepartment)
    THEN Select(d, [i \in 1..Len(d.rows) |-> d.rows[i].cell[ColDepartment] = Str(dept)])
    ELSE d

\* line 213
ExpiredFrame(d) ==
    IF HasCol(d, ColWarrantyStatus)
    THEN Select(d, [i \in 1..Len(d.rows) |-> d.rows[i].cell[ColWarrantyStatus] = Str(Expired)])
    ELSE [cols |-> <<>>, rows |-> <<>>]

\* ------------------------------------------------------------ the inputs
\* a date cell: the date's serial, written in decimal
DateCell(t) == Str(NatText(t))

\* A full export of two devices.  The first checked in a little under 30 days
\* ago and its warranty runs a little over 90 days; the second has a
\* lower-case name, an unparseable check-in date, no Managed value and a
\* warranty that ends now.
FileFull ==
    [ok |-> TRUE,
     cols |-> <<ColComputerName, ColSerial, ColUsername, ColOS, ColLastUpdate, ColManaged, ColWarranty>>,
     rows |-> <<
        (ColComputerName :> Str(<<"P","R","O","-","1">>)) @@ (ColSerial :> Str(<<"S","1">>))
          @@ (ColUsername :> Str(<<"a","m","y">>)) @@ (ColOS :> Str(<<"m","a","c","O","S">>))
          @@ (ColLastUpdate :> DateCell(Now0 - CheckInDays * UnitsPerDay + 1))
          @@ (ColManaged :> Str(<<"M","a","n","a","g","e","d">>))
          @@ (ColWarranty :> DateCell(Now0 + (ExpiringDays + 1) * UnitsPerDay)),
        (ColComputerName :> Str(<<"s","t","u","-","2">>)) @@ (ColSerial :> Str(<<"S","2">>))
          @@ (ColUsername :> NaN) @@ (ColOS :> Str(<<"i","P","a","d","O","S">>))
          @@ (ColLastUpdate :> Str(<<"u","n","k","n","o","w","n">>))
          @@ (ColManaged :> NaN)
          @@ (ColWarranty :> DateCell(Now0)) >>]

\* An export with neither computer names nor a Managed column, which brings
\* its own Department column.
FileDept ==
    [ok |-> TRUE,
     cols |-> <<ColSerial, ColDepartment, ColLastUpdate, ColWarranty>>,
     rows |-> <<
        (ColSerial :> Str(<<"S","3">>)) @@ (ColDepartment :> Str(<<"H","R">>))
          @@ (ColLastUpdate :> NaN) @@ (ColWarranty :> Str(<<"t","b","d">>)) >>]

\* An export without computer names.  The first device checked in 40 days ago
\* and its warranty runs exactly 90 days; the second has a check-in date in
\* the future and a warranty that ended 5 days ago.
FileOld ==
    [ok |-> TRUE,
     cols |-> <<ColSerial, ColManaged, ColWarranty, ColLastUpdate>>,
     rows |-> <<
        (ColSerial :> Str(<<"S","4">>)) @@ (ColManaged :> Str(Unmanaged))
          @@ (ColWarranty :> DateCell(Now0 + ExpiringDays * UnitsPerDay))
          @@ (ColLastUpdate :> DateCell(Now0 - 40 * UnitsPerDay)),
        (ColSerial :> Str(<<"S","5">>)) @@ (ColManaged :> Str(<<"R","e","t","i","r","e","d">>))
          @@ (ColWarranty :> DateCell(Now0 - 5 * UnitsPerDay))
          @@ (ColLastUpdate :> DateCell(Now0 + 3 * UnitsPerDay)) >>]

\* A file pd.read_csv raises on.
FileUnreadable == [ok |-> FALSE, cols |-> <<>>, rows |-> <<>>]

Files == {FileFull, FileDept, FileOld, FileUnreadable}

\* what the user types into the search box
SearchTerms == {<<>>, <<"P","r","o">>, <<"n","a","m","e">>}

\* ---------------------------------------------------------------- the state
VARIABLES
    uploaded_files,   \* the file uploader's files, in upload order
    now,              \* the wall clock
    page,             \* the radio's selection
    search_term,      \* the search box
    selected_dept,    \* select box inv_dept
    selected_managed, \* select box inv_managed
    selected_os,      \* select box inv_os
    selected_dept_w,  \* select box warr_dept
    outcome,          \* how the last run ended: "info", "ok" or "error"
    enriched_at,      \* the clock value the last run enriched against
    df,               \* the enriched frame of the last run, or None
    results,          \* the Inventory page's filtered frame, or None
    stale_mask,       \* the Inventory page's stale flags, one per row of results
    w_df,             \* the Warranty page's frame, or None
    expired           \* the Warranty page's expired devices, or None

vars == <<uploaded_files, now, page, search_term, selected_dept, selected_managed,
          selected_os, selected_dept_w, outcome, enriched_at, df, results,
          stale_mask, w_df, expired>>

NoTime == 0 - 1

\* what a run leaves when it renders neither page
NoPage(how, frame, t, pg, term, dept) ==
    [outcome |-> how, enriched_at |-> t, df |-> frame,
     page |-> pg, search_term |-> term, selected_dept |-> dept,
     selected_managed |-> All, selected_os |-> All, selected_dept_w |-> All,
     results |-> None, stale_mask |-> <<>>, w_df |-> None, expired |-> None]

\* lines 64-167: the Inventory page.  The managed select box is built from
\* managed.tolist(), and managed is a plain list when the frame has no Managed
\* column: the run raises at line 83, after the search box and the department
\* select box were drawn.
InventoryPage(d, t, term, dept, managed, os) ==
    LET dept1 == Selected(dept, DeptOptions(d))
    IN IF ~HasCol(d, ColManaged)
       THEN NoPage("error", d, t, PageInventory, term, dept1)
       ELSE LET managed1 == Selected(managed, ManagedOptions(d))
                os1 == Selected(os, OSOptions(d))
                res == ApplyFilters(d, dept1, managed1, term, os1)
            IN [outcome |-> "ok", enriched_at |-> t, df |-> d,
                page |-> PageInventory, search_term |-> term, selected_dept |-> dept1,
                selected_managed |-> managed1, selected_os |-> os1, selected_dept_w |-> All,
                results |-> res, stale_mask |-> StaleMask(res), w_df |-> None, expired |-> None]

\* lines 170-219: the Warranty page
WarrantyPage(d, t, deptw) ==
    LET deptw1 == Selected(deptw, DeptOptions(d))
        w == WarrantyFrame(d, deptw1)
    IN [outcome |-> "ok", enriched_at |-> t, df |-> d,
        page |-> PageWarranty, search_term |-> <<>>, selected_dept |-> All,
        selected_managed |-> All, selected_os |-> All, selected_dept_w |-> deptw1,
        results |-> None, stale_mask |-> <<>>, w_df |-> w, expired |-> ExpiredFrame(w)]

\* One run of the script, lines 26-222, at clock value t.  A widget that a run
\* does not draw loses its selection.  With files uploaded and none of them
\* readable df is still None at line 42, and df.columns raises.
Script(files, t, pg, term, dept, managed, os, deptw) ==
    IF Len(files) = 0
    THEN NoPage("info", None, NoTime, PageInventory, <<>>, All)
    ELSE LET raw == LoadFrame(files)
         IN IF raw = None
            THEN NoPage("error", None, NoTime, PageInventory, <<>>, All)
            ELSE IF pg = PageInventory
                 THEN InventoryPage(Enrich(raw, t), t, term, dept, managed, os)
                 ELSE WarrantyPage(Enrich(raw, t), t, deptw)

\* the session after a run on the given files and widget values
Rerun(files, pg, term, dept, managed, os, deptw) ==
    \E out \in {Script(files, now, pg, term, dept, managed, os, deptw)} :
       /\ uploaded_files' = files
       /\ now' = now
       /\ page' = out.page
       /\ search_term' = out.search_term
       /\ selected_dept' = out.selected_dept
       /\ selected_managed' = out.selected_managed
       /\ selected_os' = out.selected_os
       /\ selected_dept_w' = out.selected_dept_w
       /\ outcome' = out.outcome
       /\ enriched_at' = out.enriched_at
       /\ df' = out.df
       /\ results' = out.results
       /\ stale_mask' = out.stale_mask
       /\ w_df' = out.w_df
       /\ expired' = out.expired

\* the first run of a session: nothing uploaded yet (line 222)
Init ==
    /\ uploaded_files = <<>>
    /\ now = Now0
    /\ page = PageInventory
    /\ search_term = <<>>
    /\ selected_dept = All
    /\ selected_managed = All
    /\ selected_os = All
    /\ selected_dept_w = All
    /\ outcome = "info"
    /\ enriched_at = NoTime
    /\ df = None
    /\ results = None
    /\ stale_mask = <<>>
    /\ w_df = None
    /\ expired = None

\* ------------------------------------------------------------ interactions
\* the user adds a file to the uploader (line 26); the files of one session
\* are distinct
AddFile(f) ==
    /\ Len(uploaded_files) < MaxFiles
    /\ f \notin Range(uploaded_files)
    /\ Rerun(Append(uploaded_files, f), page, search_term, selected_dept,
             selected_managed, selected_os, selected_dept_w)

\* the user removes a file from the uploader (line 26)
RemoveFile(i) ==
    /\ i \in 1..Len(uploaded_files)
    /\ Rerun(SubSeq(uploaded_files, 1, i - 1) \o SubSeq(uploaded_files, i + 1, Len(uploaded_files)),
             page, search_term, selected_dept, selected_managed, selected_os, selected_dept_w)

\* the radio of line 61, drawn once a frame was read
SwitchPage(p) ==
    /\ df # None
    /\ p # page
    /\ Rerun(uploaded_files, p, search_term, selected_dept, selected_managed,
             selected_os, selected_dept_w)

\* the search box of line 73
SetSearch(s) ==
    /\ df # None /\ page = PageInventory
    /\ s # search_term
    /\ Rerun(uploaded_files, page, s, selected_dept, selected_managed,
             selected_os, selected_dept_w)

\* the select box of lines 76-80
SelectDept(d) ==
    /\ df # None /\ page = PageInventory
    /\ d \in DeptOptions(df) /\ d # selected_dept
    /\ Rerun(uploaded_files, page, search_term, d, selected_managed,
             selected_os, selected_dept_w)

\* the select box of line 84
SelectManaged(m) ==
    /\ outcome = "ok" /\ page = PageInventory
    /\ m \in ManagedOptions(df) /\ m # selected_managed
    /\ Rerun(uploaded_files, page, search_term, selected_dept, m,
             selected_os, selected_dept_w)

\* the select box of lines 86-90
SelectOS(o) ==
    /\ outcome = "ok" /\ page = PageInventory
    /\ o \in OSOptions(df) /\ o # selected_os
    /\ Rerun(uploaded_files, page, search_term, selected_dept, selected_managed,
             o, selected_dept_w)

\* the select box of lines 180-184
SelectDeptW(d) ==
    /\ outcome = "ok" /\ page = PageWarranty
    /\ d \in DeptOptions(df) /\ d # selected_dept_w
    /\ Rerun(uploaded_files, page, search_term, selected_dept, selected_managed,
             selected_os, d)

\* time passes between two interactions
Tick ==
    /\ now < Now0 + MaxTick
    /\ now' = now + 1
    /\ UNCHANGED <<uploaded_files, page, search_term, selected_dept, selected_managed,
                   selected_os, selected_dept_w, outcome, enriched_at, df, results,
                   stale_mask, w_df, expired>>

AllText == UNION {UniqueValues(Concat(<<f>>), c) : f \in {g \in Files : g.ok}, c \in {ColDepartment, ColManaged, ColOS}}
           \cup Range(DeptCodes) \cup {All, Unmanaged}

Next ==
    \/ \E f \in Files : AddFile(f)
    \/ \E i \in 1..MaxFiles + 1 : RemoveFile(i)
    \/ \E p \in {PageInventory, PageWarranty} : SwitchPage(p)
    \/ \E s \in SearchTerms : SetSearch(s)
    \/ \E d \in AllText : SelectDept(d)
    \/ \E m \in AllText : SelectManaged(m)
    \/ \E o \in AllText : SelectOS(o)
    \/ \E d \in AllText : SelectDeptW(d)
    \/ Tick

Spec == Init /\ [][Next]_vars

\* ------------------------------------------------------------- properties
\* the frame as it was read, before enrichment
RawFrame == LoadFrame(uploaded_files)

\* a frame was read and enriched in the last run
Enriched == df # None

\* the Inventory page was rendered to its end in the last run
InventoryShown == outcome = "ok" /\ page = PageInventory

RowIndex(d) == 1..Len(d.rows)

\* the search predicate as the specification states it: the lower-cased text
\* occurs in the lower-cased value of one of the record's fields
FieldMatch(d, r, term) ==
    \E c \in ColSet(d) : Contains(Lower(ValueText(r.cell[c])), Lower(term))

\* the filter predicates as the specification states them, for the session's
\* selections: a predicate that is "All" or empty, or whose column the batch
\* lacks, is satisfied
DeptSatisfied(d, r) ==
    selected_dept = All \/ ~HasCol(d, ColDepartment) \/ r.cell[ColDepartment] = Str(selected_dept)

UnmanagedRecord(r) == IsNa(r.cell[ColManaged]) \/ r.cell[ColManaged] = Str(Unmanaged)

ManagedSatisfied(d, r) ==
    \/ selected_managed = All
    \/ ~HasCol(d, ColManaged)
    \/ IF selected_managed = Unmanaged THEN UnmanagedRecord(r)
       ELSE r.cell[ColManaged] = Str(selected_managed)

OSSatisfied(d, r) ==
    selected_os = All \/ ~HasCol(d, ColOS) \/ r.cell[ColOS] = Str(selected_os)

SearchSatisfied(d, r) == search_term = <<>> \/ FieldMatch(d, r, search_term)

\* C1: a record whose days_until_expiration is null (warranty_expiration null
\* or unparseable) has warranty_status 'unclassified': it is never 'Expired',
\* 'Expiring Soon (<90 days)' or 'Valid'.
C1_NullWarrantyUnclassified ==
    (Enriched /\ HasCol(df, ColWarranty)) =>
        \A i \in RowIndex(df) :
            IsNa(df.rows[i].cell[ColDaysUntil]) =>
                df.rows[i].cell[ColWarrantyStatus] \notin {Str(Expired), Str(ExpiringSoon), Str(Valid)}

\* C2: when files were uploaded and none of them could be read, the run ends
\* without an error, on an empty record set.
C2_UnreadableBatchIsEmpty ==
    (Len(uploaded_files) > 0 /\ Len(ReadableFiles(uploaded_files)) = 0) =>
        (outcome = "ok" /\ df # None /\ Len(df.rows) = 0)

\* C3: on the Inventory page of any batch that was read, the result is exactly
\* the subsequence of the enriched records that satisfy every active predicate
\* (department, managed, operating system, search text), in their order; "All",
\* empty and absent-column predicates exclude nothing.
C3_InventoryResultIsTheMatchingSubsequence ==
    (Enriched /\ page = PageInventory) =>
        /\ outcome = "ok"
        /\ results.cols = df.cols
        /\ results.rows = SelectSeq(df.rows, LAMBDA r :
                              /\ DeptSatisfied(df, r) /\ ManagedSatisfied(df, r)
                              /\ OSSatisfied(df, r) /\ SearchSatisfied(df, r))

\* C6: with a search text and no other predicate active, the records shown
\* are exactly those with a field whose lower-cased value contains the
\* lower-cased search text.
C6_SearchMatchesFieldValuesOnly ==
    (InventoryShown /\ search_term # <<>> /\ selected_dept = All
        /\ selected_managed = All /\ selected_os = All) =>
        results.rows = SelectSeq(df.rows, LAMBDA r : FieldMatch(df, r, search_term))

\* C10: a record of the Inventory result is flagged stale exactly when its
\* check_in_status is 'Not checked in (30+ days)'.
C10_StaleAgreesWithCheckInStatus ==
    (InventoryShown /\ HasCol(results, ColCheckIn)) =>
        \A i \in RowIndex(results) :
            stale_mask[i] <=> results.rows[i].cell[ColCheckIn] = Str(NotCheckedIn)

\* what lines 46 and 54 make of a parsed date at clock value t
ElapsedDays(v, t) == IF v.k = "ts" THEN Num((t - v.t) \div UnitsPerDay) ELSE NaN
RemainingDays(v, t) == IF v.k = "ts" THEN Num((v.t - t) \div UnitsPerDay) ELSE NaN

\* the day counts of every record of d are those of clock value t
DayCountsAt(d, t) ==
    \A i \in RowIndex(d) :
        /\ HasCol(d, ColLastUpdate) =>
              d.rows[i].cell[ColDaysSince] = ElapsedDays(d.rows[i].cell[ColLastUpdate], t)
        /\ HasCol(d, ColWarranty) =>
              d.rows[i].cell[ColDaysUntil] = RemainingDays(d.rows[i].cell[ColWarranty], t)

DerivedCols == {ColDepartment, ColDaysSince, ColCheckIn, ColDaysUntil, ColWarrantyStatus}

\* the derived fields of every record of d
DerivedFields(d) ==
    [i \in RowIndex(d) |-> [c \in ColSet(d) \cap DerivedCols |-> d.rows[i].cell[c]]]

ParsedDate(v) ==
    IF v.k = "str" /\ v.s # <<>> /\ (\A k \in 1..Len(v.s) : IsDigit(v.s[k]))
    THEN Ts(DecimalValue(v.s)) ELSE NaN

\* the department code a name starts with, a missing value when it starts
\* with none
LeadingCode(v) ==
    IF v.k = "str" /\ Len(v.s) >= 3 /\ SubSeq(v.s, 1, 3) \in Range(DeptCodes)
    THEN Str(SubSeq(v.s, 1, 3)) ELSE NaN

C7_CheckInStatus ==
    (Len(ReadableFiles(uploaded_files)) > 0 /\ HasCol(RawFrame, ColLastUpdate)) =>
        /\ Enriched /\ HasCol(df, ColCheckIn)
        /\ \A i \in RowIndex(df) :
              LET raw == RawFrame.rows[i].cell[ColLastUpdate]
                  days == df.rows[i].cell[ColDaysSince]
                  status == df.rows[i].cell[ColCheckIn]
                  recent == /\ NotNa(df.rows[i].cell[ColLastUpdate])
                            /\ days.k = "num" /\ days.n < CheckInDays
              IN /\ status = IF recent THEN Str(CheckedIn) ELSE Str(NotCheckedIn)
                 /\ IsNa(ParsedDate(raw)) => status = Str(NotCheckedIn)

\* one batch holds a record with an unparseable date, one at exactly 30 days
\* and one under 30 days, classified
C7_Witness ==
    /\ Enriched /\ HasCol(df, ColCheckIn)
    /\ \E i \in RowIndex(df) :
          /\ RawFrame.rows[i].cell[ColLastUpdate].k = "str"
          /\ IsNa(df.rows[i].cell[ColLastUpdate])
          /\ df.rows[i].cell[ColCheckIn] = Str(NotCheckedIn)
    /\ \E i \in RowIndex(df) :
          /\ df.rows[i].cell[ColDaysSince] = Num(CheckInDays)
          /\ df.rows[i].cell[ColCheckIn] = Str(NotCheckedIn)
    /\ \E i \in RowIndex(df) :
          /\ df.rows[i].cell[ColDaysSince].k = "num"
          /\ df.rows[i].cell[ColDaysSince].n < CheckInDays
          /\ df.rows[i].cell[ColCheckIn] = Str(CheckedIn)

\* C8: a record with a days_until_expiration is 'Expired' exactly when the
\* value is < 0, 'Expiring Soon (<90 days)' exactly when 0 <= value <= 90 and
\* 'Valid' exactly when value > 90.
C8_WarrantyPartition ==
    (Enriched /\ HasCol(df, ColWarranty)) =>
        \A i \in RowIndex(df) :
            LET days == df.rows[i].cell[ColDaysUntil]
                status == df.rows[i].cell[ColWarrantyStatus]
            IN days.k = "num" =>
                 /\ status \in {Str(Expired), Str(ExpiringSoon), Str(Valid)}
                 /\ status = Str(Expired) <=> days.n < 0
                 /\ status = Str(ExpiringSoon) <=> (0 <= days.n /\ days.n <= ExpiringDays)
                 /\ status = Str(Valid) <=> days.n > ExpiringDays

\* one batch holds records at -5, 0, 90 and 91 days, classified
C8_Witness ==
    /\ Enriched /\ HasCol(df, ColWarrantyStatus)
    /\ \E i \in RowIndex(df) :
          df.rows[i].cell[ColDaysUntil] = Num(0) /\ df.rows[i].cell[ColWarrantyStatus] = Str(ExpiringSoon)
    /\ \E i \in RowIndex(df) :
          df.rows[i].cell[ColDaysUntil] = Num(ExpiringDays) /\ df.rows[i].cell[ColWarrantyStatus] = Str(ExpiringSoon)
    /\ \E i \in RowIndex(df) :
          df.rows[i].cell[ColDaysUntil] = Num(ExpiringDays + 1) /\ df.rows[i].cell[ColWarrantyStatus] = Str(Valid)
    /\ \E i \in RowIndex(df) :
          df.rows[i].cell[ColDaysUntil] = Num(0 - 5) /\ df.rows[i].cell[ColWarrantyStatus] = Str(Expired)

\* C9: with "Unmanaged" selected on a batch that has a Managed column, the
\* records shown are exactly the records passing the other three filters
\* whose Managed value is missing or is the string "Unmanaged".
C9_UnmanagedMatchesNullAndLiteral ==
    (InventoryShown /\ selected_managed = Unmanaged /\ HasCol(df, ColManaged)) =>
        results.rows =
            SelectSeq(ApplyFilters(df, selected_dept, All, search_term, selected_os).rows,
                      UnmanagedRecord)

\* "Unmanaged" is selected and the result holds a record with no Managed
\* value and one with the value "Unmanaged", and leaves out one with another
C9_Witness ==
    /\ InventoryShown /\ selected_managed = Unmanaged /\ HasCol(df, ColManaged)
    /\ \E i \in RowIndex(results) : IsNa(results.rows[i].cell[ColManaged])
    /\ \E i \in RowIndex(results) : results.rows[i].cell[ColManaged] = Str(Unmanaged)
    /\ \E i \in RowIndex(df) :
          /\ df.rows[i].cell[ColManaged].k = "str"
          /\ df.rows[i].cell[ColManaged] # Str(Unmanaged)
          /\ \A j \in RowIndex(results) : results.rows[j].idx # df.rows[i].idx

=============================================================================
